---- MODULE Spec2Model ----
(***************************************************************************)
(* A model of src/sync.py: the two-way synchronisation of a Notion         *)
(* database (Records, "pages") with a Google Calendar (Events).            *)
(*                                                                         *)
(* Two specifications:                                                     *)
(*   Spec      the record store, the calendar and runs of main(), one      *)
(*             backend call sequence per loop iteration, with external     *)
(*             edits between runs and a bounded number of failing calls;   *)
(*   SpecDate  the two pure date conversions applied to bounded inputs.    *)
(***************************************************************************)
EXTENDS Integers, Sequences, FiniteSets

(***************************************************************************)
(* Bounds of the model.                                                    *)
(***************************************************************************)
MaxDay == 3
MaxRec == 2
MaxEv == 2
MaxExt == 3
MaxFail == 1

MaxSwitch == 3

(***************************************************************************)
(* Date strings.  A value stands for the text the two backends exchange:   *)
(*   kind "none"     Python None (the key is absent or null)               *)
(*   kind "day"      "YYYY-MM-DD", ten characters; day counts the days     *)
(*   kind "instant"  "YYYY-MM-DDTHH:00:00" followed by zone                *)
(*   kind "bad"      a text that is neither (datetime cannot parse it)     *)
(***************************************************************************)
NoneStr == [kind |-> "none", day |-> 0, hour |-> 0, zone |-> ""]

DayStr(d) == [kind |-> "day", day |-> d, hour |-> 0, zone |-> ""]

InstantStr(d, h, z) == [kind |-> "instant", day |-> d, hour |-> h, zone |-> z]

BadStr == [kind |-> "bad", day |-> 0, hour |-> 0, zone |-> ""]

\* len(s) of a date string
StrLen(s) ==
    CASE s.kind = "day" -> 10
      [] s.kind = "instant" -> (IF s.zone = "Z" THEN 20 ELSE 25)
      [] s.kind = "bad" -> 8
      [] OTHER -> 0

\* Python truthiness of an optional string
Truthy(s) == s.kind # "none"

\* datetime.strptime(s, "%Y-%m-%d") + timedelta(days=n), formatted back
AddDays(s, n) == DayStr(s.day + n)

\* datetime.fromisoformat(s.replace("Z", "+00:00")) + timedelta(hours=1),
\* then isoformat(): the offset is written numerically, never as "Z"
AddHourIso(s) ==
    LET z == IF s.zone = "Z" THEN "+00:00" ELSE s.zone
    IN  IF s.hour + 1 = 24
        THEN InstantStr(s.day + 1, 0, z)
        ELSE InstantStr(s.day, s.hour + 1, z)

(***************************************************************************)
(* A Record's date property {start, end}: start is NoneStr when the        *)
(* property is empty.  A calendar time {'date': v} or {'dateTime': v}:     *)
(* key is "none" for a dict holding neither key.                           *)
(***************************************************************************)
NoDate == [start |-> NoneStr, end |-> NoneStr]

TimeDict(k, v) == [key |-> k, val |-> v]

NoTime == TimeDict("none", NoneStr)

\* d.get(k): the value under key k, or None
DictGet(d, k) == IF d.key = k THEN d.val ELSE NoneStr

UntitledEvent == "Untitled Event"

\* the summary key is absent from the Event
NoSummary == "<absent>"

\* gcal_event.get('summary', 'Untitled Event')
SummaryOf(ev) == IF ev.summary = NoSummary THEN UntitledEvent ELSE ev.summary

\* extract_title_from_notion: the first non-empty plain_text of the title
\* property, else the placeholder.  A database has exactly one property of
\* type title, so both strategies read the same text.
extract_title_from_notion(item) ==
    IF item.title # "" THEN item.title ELSE UntitledEvent

\* A faulty variant: a missing end is synthesised as the start itself.
notion_to_calendar_event_noend(item) ==
    LET start_time == item.date.start
        end_time == item.date.end
        is_all_day == Truthy(start_time) /\ StrLen(start_time) = 10
        body(s, e) == [summary |-> extract_title_from_notion(item),
                       description |-> item.id, start |-> s, end |-> e]
        e2 == IF Truthy(end_time) THEN end_time ELSE start_time
    IN  IF ~Truthy(start_time) THEN << >>
        ELSE IF is_all_day
        THEN << body(TimeDict("date", start_time), TimeDict("date", e2)) >>
        ELSE << body(TimeDict("dateTime", start_time), TimeDict("dateTime", e2)) >>

\* notion_to_calendar_event: << >> for None, else <<body>>.  The description
\* "Synced from Notion: <url>" is determined by the Record, and is modelled
\* by the Record's id.
notion_to_calendar_event(item) ==
    LET start_time == item.date.start
        end_time0 == item.date.end
        is_all_day == Truthy(start_time) /\ StrLen(start_time) = 10
        \* lines 229-234: all-day and no end: end = start + 1 day
        end_time == IF is_all_day /\ ~Truthy(end_time0)
                    THEN AddDays(start_time, 1) ELSE end_time0
        body(s, e) == [summary |-> extract_title_from_notion(item),
                       description |-> item.id, start |-> s, end |-> e]
    IN  IF ~Truthy(start_time) THEN << >>
        ELSE IF is_all_day
        THEN << body(TimeDict("date", start_time), TimeDict("date", end_time)) >>
        ELSE << body(TimeDict("dateTime", start_time),
                     TimeDict("dateTime",
                              IF Truthy(end_time) THEN end_time
                              \* lines 252-257: start + 1 hour, or start itself
                              \* when the text cannot be parsed
                              ELSE IF start_time.kind = "instant"
                                   THEN AddHourIso(start_time) ELSE start_time)) >>

\* gcal_event_to_notion_date: the pair <<start, end>>
gcal_event_to_notion_date(gcal_event) ==
    LET start == gcal_event.start
        end == gcal_event.end
    IN  IF start.key = "date"
        THEN LET start_date == start.val
                 end_date0 == DictGet(end, "date")
                 end_date1 == IF Truthy(end_date0) THEN AddDays(end_date0, -1)
                              ELSE end_date0
                 end_date == IF Truthy(end_date0) /\ end_date1 = start_date
                             THEN NoneStr ELSE end_date1
             IN  << start_date, end_date >>
        ELSE IF start.key = "dateTime"
        THEN << start.val, DictGet(end, "dateTime") >>
        ELSE << NoneStr, NoneStr >>

(***************************************************************************)
(* State.                                                                  *)
(*   notion        the database: a sequence of pages, the id of a page is  *)
(*                 its index; [title, date, archived]                      *)
(*   calendar      the calendar: a sequence of Events, the id of an Event  *)
(*                 is its index; [summary, description, start, end, link,  *)
(*                 status]; link is the notion_id private extended         *)
(*                 property (0: none), status "cancelled" once deleted     *)
(*   pc            where main() stands                                     *)
(*   notion_items  the Records fetched at the start of the run             *)
(*   i             the index of the loop in progress                       *)
(*   gcal_events   the Event list fetched by the Reverse Pass              *)
(*   n2c, c2n      the counters of the two passes                          *)
(*   result        the value main() returned last                          *)
(* History, for stating the properties:                                    *)
(*   prev          the run before the current one, when nothing happened   *)
(*                 between the two                                         *)
(*   calls         the backend calls issued by the run, in order           *)
(*   run_fails     the calls that failed in the run                        *)
(*   failures      how many calls failed so far                            *)
(*   exts          how many external changes were made so far              *)
(*   start_calendar  the calendar as it was when the run started           *)
(*   adopted_from  per page, the Event it was created from (0: none)       *)
(* The date conversions applied on their own (SpecDate):                   *)
(*   tr_pc, tr_rec, tr_event, tr_back                                      *)
(* Two executions of main() that overlap (SpecOverlap):                    *)
(*   lookup        `existing', the answer of the lookup of line 299, kept  *)
(*                 between the lookup and the write that follows it        *)
(*   other         the second execution: its pc, notion_items, i,          *)
(*                 gcal_events, n2c, c2n, result, prev, calls, run_fails,  *)
(*                 start_calendar and lookup, while the first one steps    *)
(*   switches      how often the two executions took turns so far          *)
(*   outdated      history: the Events written by an update or an insert   *)
(*                 when the lookup it acted on was no longer the answer    *)
(***************************************************************************)
VARIABLES notion, calendar, pc, notion_items, i, gcal_events, n2c, c2n,
          result, prev, calls, run_fails, failures, exts,
          start_calendar, adopted_from, tr_pc, tr_rec, tr_event, tr_back,
          lookup, other, outdated, switches

storeVars == << notion, calendar, adopted_from >>

runVars == << pc, notion_items, i, gcal_events, n2c, c2n, result, prev, calls,
              run_fails, failures, exts, start_calendar >>

trVars == << tr_pc, tr_rec, tr_event, tr_back >>

ovVars == << lookup, other, outdated, switches >>

vars == << notion, calendar, pc, notion_items, i, gcal_events, n2c, c2n,
           result, prev, calls, run_fails, failures, exts,
           start_calendar, adopted_from, tr_pc, tr_rec, tr_event, tr_back,
           lookup, other, outdated, switches >>

ZeroN2C == [created |-> 0, updated |-> 0, skipped |-> 0, deleted |-> 0]

ZeroC2N == [created |-> 0, updated |-> 0, deleted |-> 0]

NoResult == [status |-> "none", notion_items_found |-> 0,
             notion_to_calendar |-> ZeroN2C, calendar_to_notion |-> ZeroC2N]

NoPrev == [valid |-> FALSE, fails |-> {}, result |-> NoResult]

\* the state after construction: an empty database and an empty calendar
InitStores ==
    /\ notion = << >>
    /\ calendar = << >>
    /\ adopted_from = << >>

InitRun ==
    /\ pc = "idle"
    /\ notion_items = << >>
    /\ i = 0
    /\ gcal_events = << >>
    /\ n2c = ZeroN2C
    /\ c2n = ZeroC2N
    /\ result = NoResult
    /\ prev = NoPrev
    /\ calls = << >>
    /\ run_fails = {}
    /\ failures = 0
    /\ exts = 0
    /\ start_calendar = << >>

InitTr ==
    /\ tr_pc = "off"
    /\ tr_rec = NoDate
    /\ tr_event = << >>
    /\ tr_back = << NoneStr, NoneStr >>

\* the second execution has not started
NotStarted ==
    [pc |-> "idle", notion_items |-> << >>, i |-> 0, gcal_events |-> << >>,
     n2c |-> ZeroN2C, c2n |-> ZeroC2N, result |-> NoResult, prev |-> NoPrev,
     calls |-> << >>, run_fails |-> {}, start_calendar |-> << >>,
     lookup |-> << >>]

InitOverlap ==
    /\ lookup = << >>
    /\ other = NotStarted
    /\ outdated = {}
    /\ switches = 0

Init == InitStores /\ InitRun /\ InitTr /\ InitOverlap

(***************************************************************************)
(* SpecDate: the two conversions applied to a bounded set of Record        *)
(* ranges.  A range's end is unset or of the granularity of its start and  *)
(* not before it.                                                          *)
(***************************************************************************)
Hours == {10, 23}

Zones == {"Z", "+00:00"}

Days == 1 .. MaxDay

RecRanges ==
    {NoDate}
    \cup {[start |-> DayStr(d), end |-> NoneStr] : d \in Days}
    \cup {[start |-> DayStr(p[1]), end |-> DayStr(p[2])] :
              p \in {q \in Days \X Days : q[1] <= q[2]}}
    \cup {[start |-> InstantStr(d, h, z), end |-> NoneStr] :
              d \in Days, h \in Hours, z \in Zones}
    \cup {[start |-> InstantStr(p[1], h, z), end |-> InstantStr(p[2], 23, z)] :
              p \in {q \in Days \X Days : q[1] <= q[2]}, h \in Hours, z \in Zones}
    \cup {[start |-> BadStr, end |-> NoneStr]}

InitDate ==
    /\ InitStores /\ InitRun /\ InitOverlap
    /\ tr_pc = "record"
    /\ tr_rec \in RecRanges
    /\ tr_event = << >>
    /\ tr_back = << NoneStr, NoneStr >>

\* toEventRange: notion_to_calendar_event on a Record holding tr_rec
ToEventRange ==
    /\ tr_pc = "record"
    /\ tr_event' = notion_to_calendar_event(
                       [id |-> 1, title |-> "Standup", date |-> tr_rec])
    /\ tr_pc' = "event"
    /\ UNCHANGED << storeVars, runVars, ovVars, tr_rec, tr_back >>

\* toRecordRange: gcal_event_to_notion_date on the Event just derived
ToRecordRange ==
    /\ tr_pc = "event"
    /\ tr_event # << >>
    /\ tr_back' = gcal_event_to_notion_date(tr_event[1])
    /\ tr_pc' = "back"
    /\ UNCHANGED << storeVars, runVars, ovVars, tr_rec, tr_event >>

NextDate == ToEventRange \/ ToRecordRange

SpecDate == InitDate /\ [][NextDate]_vars

(***************************************************************************)
(* The two backends, as the program sees them.                             *)
(***************************************************************************)
Range(f) == {f[k] : k \in DOMAIN f}

\* a page as the database query returns it
ItemOf(k) == [id |-> k, title |-> notion[k].title, date |-> notion[k].date]

\* get_notion_items, the query succeeding: the pages that are not archived
get_notion_items ==
    LET all == [k \in 1 .. Len(notion) |-> ItemOf(k)]
    IN  SelectSeq(all, LAMBDA it : ~notion[it.id].archived)

\* an Event as events().list returns it
ListedOf(cal, k) ==
    [id |-> k, summary |-> cal[k].summary, description |-> cal[k].description,
     start |-> cal[k].start, end |-> cal[k].end, link |-> cal[k].link]

\* events().list(calendarId, maxResults=2500): the Events not deleted
events_list(cal) ==
    LET all == [k \in 1 .. Len(cal) |-> ListedOf(cal, k)]
    IN  SelectSeq(all, LAMBDA ev : cal[ev.id].status = "confirmed")

\* a lookup whose filter matches no Event
lookup_never_finds(cal, notion_id) == << >>

\* events().list(calendarId, privateExtendedProperty="notion_id=<id>")
events_list_by_link(cal, notion_id) ==
    SelectSeq(events_list(cal), LAMBDA ev : ev.link = notion_id)

\* the resource events().update and events().insert store for a body
Stored(body, link) ==
    [summary |-> body.summary, description |-> body.description,
     start |-> body.start, end |-> body.end, link |-> link,
     status |-> "confirmed"]

\* events().delete
Cancelled(ev) == [ev EXCEPT !.status = "cancelled"]

\* the date property create_notion_page and update_notion_page send
DateProperty(start_date, end_date) ==
    [start |-> start_date,
     end |-> IF Truthy(end_date) /\ end_date # start_date THEN end_date
             ELSE NoneStr]

Call(pass, op, rec, ev, ok) ==
    [pass |-> pass, op |-> op, rec |-> rec, ev |-> ev, ok |-> ok]

\* the id set built from the Records that have a date only
notion_ids_dated ==
    {notion_items[k].id :
        k \in {j \in DOMAIN notion_items : Truthy(notion_items[j].date.start)}}

notion_ids == {notion_items[k].id : k \in DOMAIN notion_items}

\* main() is not running: never started, returned, left by sys.exit, or
\* left by an exception
Idle == pc \in {"idle", "done", "exited", "raised"}

(***************************************************************************)
(* main(), lines 473-491: the Records are fetched once; a query that does  *)
(* not answer 200 yields the empty list (lines 66-71).                     *)
(***************************************************************************)
Begin(items, fails) ==
    /\ Idle
    /\ notion_items' = items
    /\ prev' = IF pc = "done"
               THEN [valid |-> TRUE, fails |-> run_fails, result |-> result]
               ELSE NoPrev
    /\ result' = NoResult
    /\ calls' = << Call("main", "databases.query", 0, 0, fails = {}) >>
    /\ run_fails' = fails
    /\ n2c' = ZeroN2C
    /\ c2n' = ZeroC2N
    /\ gcal_events' = << >>
    /\ i' = 1
    /\ start_calendar' = calendar
    /\ pc' = IF items = << >> THEN "sweep" ELSE "forward"
    /\ UNCHANGED << storeVars, exts, trVars, ovVars >>

Start ==
    /\ Begin(get_notion_items, {})
    /\ UNCHANGED failures

StartFetchFails ==
    /\ failures < MaxFail
    /\ failures' = failures + 1
    /\ Begin(<< >>, {"fetch"})

\* the run ends before the passes; nothing of it is left but its calls
EndsEarly(how, made, res) ==
    /\ Idle
    /\ pc' = how
    /\ calls' = made
    /\ result' = res
    /\ run_fails' = {how}
    /\ prev' = NoPrev
    /\ notion_items' = << >>
    /\ i' = 0
    /\ gcal_events' = << >>
    /\ n2c' = ZeroN2C
    /\ c2n' = ZeroC2N
    /\ start_calendar' = calendar
    /\ UNCHANGED << storeVars, exts, trVars, ovVars >>

\* lines 471, 29-32: a required variable is missing: validate_env() prints
\* and calls sys.exit(1); nothing is returned
ConfigMissing ==
    /\ failures < MaxFail
    /\ failures' = failures + 1
    /\ EndsEarly("exited", << >>, NoResult)

\* line 473, 59-63: requests.post raises (no connection, timeout); the call
\* is outside every try block of main(): the exception leaves main()
FetchRaises ==
    /\ failures < MaxFail
    /\ failures' = failures + 1
    /\ EndsEarly("raised",
                 << Call("main", "databases.query", 0, 0, FALSE) >>, NoResult)

\* lines 478-483: the calendar client cannot be built: main() returns
\* {"error": ...} through context.res.json
ClientFails ==
    /\ failures < MaxFail
    /\ failures' = failures + 1
    /\ EndsEarly("done",
                 << Call("main", "databases.query", 0, 0, TRUE),
                    Call("main", "build", 0, 0, FALSE) >>,
                 [NoResult EXCEPT !.status = "error"])

(***************************************************************************)
(* sync_notion_to_calendar, lines 286-325: one iteration of the loop over  *)
(* the fetched Records.                                                    *)
(***************************************************************************)
InForward == pc = "forward" /\ i \in DOMAIN notion_items

\* the loop moves to the next Record, or to the deletion sweep after the last
ForwardAdvance ==
    /\ i' = IF i + 1 > Len(notion_items) THEN 0 ELSE i + 1
    /\ pc' = IF i + 1 > Len(notion_items) THEN "sweep" ELSE "forward"

\* the body without lines 294-296: no Notion id is attached
ForwardBodyNoLink(item) == Stored(notion_to_calendar_event(item)[1], 0)

\* lines 294-296: the body with the Notion id attached
ForwardBody(item) == Stored(notion_to_calendar_event(item)[1], item.id)

\* lines 289-292: no event derived, the Record is skipped
ForwardSkip ==
    /\ InForward
    /\ notion_to_calendar_event(notion_items[i]) = << >>
    /\ n2c' = [n2c EXCEPT !.skipped = @ + 1]
    /\ ForwardAdvance
    /\ UNCHANGED << storeVars, notion_items, gcal_events, c2n, result, prev,
                    calls, run_fails, failures, exts, start_calendar,
                    trVars, ovVars >>

\* the found branch sending a patch of the dates: the Event keeps the
\* summary it has
ForwardUpdateKeepsTitle ==
    /\ InForward
    /\ notion_to_calendar_event(notion_items[i]) # << >>
    /\ LET item == notion_items[i]
           existing == events_list_by_link(calendar, item.id)
       IN  /\ existing # << >>
           /\ calendar' = [calendar EXCEPT ![existing[1].id] =
                              [ForwardBody(item) EXCEPT
                                  !.summary = existing[1].summary]]
           /\ calls' = calls \o << Call("forward", "events.list", item.id, 0, TRUE),
                                   Call("forward", "events.update", item.id,
                                        existing[1].id, TRUE) >>
    /\ n2c' = [n2c EXCEPT !.updated = @ + 1]
    /\ ForwardAdvance
    /\ UNCHANGED << notion, adopted_from, notion_items, gcal_events, c2n,
                    result, prev, run_fails, failures, exts,
                    start_calendar, trVars, ovVars >>

\* the found branch inserting instead of updating
ForwardUpdateInserts ==
    /\ InForward
    /\ notion_to_calendar_event(notion_items[i]) # << >>
    /\ Len(calendar) < MaxEv
    /\ LET item == notion_items[i]
           existing == events_list_by_link(calendar, item.id)
       IN  /\ existing # << >>
           /\ calendar' = Append(calendar, ForwardBody(item))
           /\ calls' = calls \o << Call("forward", "events.list", item.id, 0, TRUE),
                                   Call("forward", "events.insert", item.id,
                                        Len(calendar) + 1, TRUE) >>
    /\ n2c' = [n2c EXCEPT !.updated = @ + 1]
    /\ ForwardAdvance
    /\ UNCHANGED << notion, adopted_from, notion_items, gcal_events, c2n,
                    result, prev, run_fails, failures, exts,
                    start_calendar, trVars, ovVars >>

\* lines 304-313: an Event carries the id: it is replaced by the body
ForwardUpdate ==
    /\ InForward
    /\ notion_to_calendar_event(notion_items[i]) # << >>
    /\ LET item == notion_items[i]
           existing == events_list_by_link(calendar, item.id)
       IN  /\ existing # << >>
           /\ calendar' = [calendar EXCEPT ![existing[1].id] = ForwardBody(item)]
           /\ calls' = calls \o << Call("forward", "events.list", item.id, 0, TRUE),
                                   Call("forward", "events.update", item.id,
                                        existing[1].id, TRUE) >>
    /\ n2c' = [n2c EXCEPT !.updated = @ + 1]
    /\ ForwardAdvance
    /\ UNCHANGED << notion, adopted_from, notion_items, gcal_events, c2n,
                    result, prev, run_fails, failures, exts,
                    start_calendar, trVars, ovVars >>

\* lines 314-321: no Event carries the id: one is inserted
ForwardCreate ==
    /\ InForward
    /\ notion_to_calendar_event(notion_items[i]) # << >>
    /\ Len(calendar) < MaxEv
    /\ LET item == notion_items[i]
           existing == events_list_by_link(calendar, item.id)
       IN  /\ existing = << >>
           /\ calendar' = Append(calendar, ForwardBody(item))
           /\ calls' = calls \o << Call("forward", "events.list", item.id, 0, TRUE),
                                   Call("forward", "events.insert", item.id,
                                        Len(calendar) + 1, TRUE) >>
    /\ n2c' = [n2c EXCEPT !.created = @ + 1]
    /\ ForwardAdvance
    /\ UNCHANGED << notion, adopted_from, notion_items, gcal_events, c2n,
                    result, prev, run_fails, failures, exts,
                    start_calendar, trVars, ovVars >>

\* lines 323-325: the lookup raises: logged, the loop continues
ForwardLookupFails ==
    /\ InForward
    /\ notion_to_calendar_event(notion_items[i]) # << >>
    /\ failures < MaxFail
    /\ failures' = failures + 1
    /\ run_fails' = run_fails \cup {"lookup"}
    /\ calls' = Append(calls, Call("forward", "events.list", notion_items[i].id,
                                   0, FALSE))
    /\ ForwardAdvance
    /\ UNCHANGED << storeVars, notion_items, gcal_events, n2c, c2n, result,
                    prev, exts, start_calendar, trVars, ovVars >>

\* the write raising with the try block around the whole loop: the pass
\* returns at once
ForwardWriteFailsAborts ==
    /\ InForward
    /\ notion_to_calendar_event(notion_items[i]) # << >>
    /\ failures < MaxFail
    /\ failures' = failures + 1
    /\ run_fails' = run_fails \cup {"write"}
    /\ LET item == notion_items[i]
           existing == events_list_by_link(calendar, item.id)
       IN  calls' = calls \o
               << Call("forward", "events.list", item.id, 0, TRUE),
                  IF existing # << >>
                  THEN Call("forward", "events.update", item.id,
                            existing[1].id, FALSE)
                  ELSE Call("forward", "events.insert", item.id, 0, FALSE) >>
    /\ i' = 0
    /\ pc' = "reverse"
    /\ UNCHANGED << storeVars, notion_items, gcal_events, n2c, c2n, result,
                    prev, exts, start_calendar, trVars, ovVars >>

\* lines 323-325: the update or the insert raises: logged, the loop continues
ForwardWriteFails ==
    /\ InForward
    /\ notion_to_calendar_event(notion_items[i]) # << >>
    /\ failures < MaxFail
    /\ failures' = failures + 1
    /\ run_fails' = run_fails \cup {"write"}
    /\ LET item == notion_items[i]
           existing == events_list_by_link(calendar, item.id)
       IN  calls' = calls \o
               << Call("forward", "events.list", item.id, 0, TRUE),
                  IF existing # << >>
                  THEN Call("forward", "events.update", item.id,
                            existing[1].id, FALSE)
                  ELSE Call("forward", "events.insert", item.id, 0, FALSE) >>
    /\ ForwardAdvance
    /\ UNCHANGED << storeVars, notion_items, gcal_events, n2c, c2n, result,
                    prev, exts, start_calendar, trVars, ovVars >>

(***************************************************************************)
(* sync_notion_to_calendar, lines 331-364: the deletion sweep.             *)
(***************************************************************************)
\* the sweep without the test of line 345: an Event with no notion_id is a
\* target too
sweep_targets_unlinked(cal, ids) ==
    SelectSeq(events_list(cal), LAMBDA ev : ev.link \notin ids)

\* lines 341-353: the listed Events that carry a notion_id which is not
\* among the fetched ids, in the order of the list
sweep_targets(cal, ids) ==
    SelectSeq(events_list(cal), LAMBDA ev : ev.link # 0 /\ ev.link \notin ids)

\* the calendar after the first n of the targets are deleted
DeleteFirst(cal, targets, n) ==
    [k \in 1 .. Len(cal) |->
        IF \E j \in 1 .. n : targets[j].id = k THEN Cancelled(cal[k]) ELSE cal[k]]

DeleteCalls(pass, targets, n) ==
    [j \in 1 .. n |-> Call(pass, "events.delete", targets[j].link,
                           targets[j].id, TRUE)]

\* the whole sweep, no call failing
Sweep ==
    /\ pc = "sweep"
    /\ LET targets == sweep_targets(calendar, notion_ids)
           n == Len(targets)
       IN  /\ calendar' = DeleteFirst(calendar, targets, n)
           /\ n2c' = [n2c EXCEPT !.deleted = @ + n]
           /\ calls' = calls \o << Call("forward", "events.list", 0, 0, TRUE) >>
                             \o DeleteCalls("forward", targets, n)
    /\ pc' = "reverse"
    /\ UNCHANGED << notion, adopted_from, notion_items, i, gcal_events, c2n,
                    result, prev, run_fails, failures, exts,
                    start_calendar, trVars, ovVars >>

\* lines 361-362: the list raises: the sweep ends, the pass returns
SweepListFails ==
    /\ pc = "sweep"
    /\ failures < MaxFail
    /\ failures' = failures + 1
    /\ run_fails' = run_fails \cup {"sweep_list"}
    /\ calls' = Append(calls, Call("forward", "events.list", 0, 0, FALSE))
    /\ pc' = "reverse"
    /\ UNCHANGED << storeVars, notion_items, i, gcal_events, n2c, c2n, result,
                    prev, exts, start_calendar, trVars, ovVars >>

\* lines 361-362: the delete of target n + 1 raises: the sweep ends there
SweepDeleteFails ==
    /\ pc = "sweep"
    /\ failures < MaxFail
    /\ failures' = failures + 1
    /\ run_fails' = run_fails \cup {"sweep_delete"}
    /\ LET targets == sweep_targets(calendar, notion_ids)
       IN  \E n \in 0 .. Len(targets) - 1 :
              /\ calendar' = DeleteFirst(calendar, targets, n)
              /\ n2c' = [n2c EXCEPT !.deleted = @ + n]
              /\ calls' = calls \o << Call("forward", "events.list", 0, 0, TRUE) >>
                                \o DeleteCalls("forward", targets, n)
                                \o << Call("forward", "events.delete",
                                           targets[n + 1].link,
                                           targets[n + 1].id, FALSE) >>
    /\ pc' = "reverse"
    /\ UNCHANGED << notion, adopted_from, notion_items, i, gcal_events, c2n,
                    result, prev, exts, start_calendar, trVars, ovVars >>

(***************************************************************************)
(* sync_calendar_to_notion, lines 367-463.  The whole pass is inside one   *)
(* try block: a call that raises ends the pass.  create_notion_page and    *)
(* update_notion_page answer None and False when the status is not 200.    *)
(***************************************************************************)
\* the Reverse Pass querying the database again before it lists the Events
ReverseListRefetch ==
    /\ pc = "reverse"
    /\ notion_items' = get_notion_items
    /\ gcal_events' = events_list(calendar)
    /\ calls' = calls \o << Call("reverse", "databases.query", 0, 0, TRUE),
                            Call("reverse", "events.list", 0, 0, TRUE) >>
    /\ i' = IF events_list(calendar) = << >> THEN 0 ELSE 1
    /\ pc' = IF events_list(calendar) = << >> THEN "finish" ELSE "reverse_loop"
    /\ UNCHANGED << storeVars, n2c, c2n, result, prev, run_fails,
                    failures, exts, start_calendar, trVars, ovVars >>

\* lines 378-383: the bulk list
ReverseList ==
    /\ pc = "reverse"
    /\ gcal_events' = events_list(calendar)
    /\ calls' = Append(calls, Call("reverse", "events.list", 0, 0, TRUE))
    /\ i' = IF events_list(calendar) = << >> THEN 0 ELSE 1
    /\ pc' = IF events_list(calendar) = << >> THEN "finish" ELSE "reverse_loop"
    /\ UNCHANGED << storeVars, notion_items, n2c, c2n, result, prev, run_fails,
                    failures, exts, start_calendar, trVars, ovVars >>

\* lines 460-461: the pass ends where the exception was raised
ReverseAbort(label, call) ==
    /\ failures < MaxFail
    /\ failures' = failures + 1
    /\ run_fails' = run_fails \cup {label}
    /\ calls' = Append(calls, call)
    /\ i' = 0
    /\ pc' = "finish"

ReverseListFails ==
    /\ pc = "reverse"
    /\ ReverseAbort("reverse_list", Call("reverse", "events.list", 0, 0, FALSE))
    /\ UNCHANGED << storeVars, notion_items, gcal_events, n2c, c2n, result,
                    prev, exts, start_calendar, trVars, ovVars >>

InReverse == pc = "reverse_loop" /\ i \in DOMAIN gcal_events

ReverseAdvance ==
    /\ i' = IF i + 1 > Len(gcal_events) THEN 0 ELSE i + 1
    /\ pc' = IF i + 1 > Len(gcal_events) THEN "finish" ELSE "reverse_loop"

\* line 376: notion_map[id]
notion_map(id) == CHOOSE it \in Range(notion_items) : it.id = id

\* lines 402-408: no notion_id, and a start date is derived
IsNative(ev) == ev.link = 0

Adoptable(ev) == IsNative(ev) /\ Truthy(gcal_event_to_notion_date(ev)[1])

\* the page create_notion_page makes for an Event
AdoptedPage(ev) ==
    LET se == gcal_event_to_notion_date(ev)
    IN  [title |-> SummaryOf(ev), date |-> DateProperty(se[1], se[2]),
         archived |-> FALSE]

\* the adoption without lines 412-420: the page is created and counted, the
\* Event is left without a notion_id
ReverseAdoptNoAttach ==
    /\ InReverse
    /\ Adoptable(gcal_events[i])
    /\ Len(notion) < MaxRec
    /\ LET ev == gcal_events[i]
           new_notion_id == Len(notion) + 1
       IN  /\ notion' = Append(notion, AdoptedPage(ev))
           /\ adopted_from' = Append(adopted_from, ev.id)
           /\ calls' = Append(calls, Call("reverse", "pages.create",
                                          new_notion_id, ev.id, TRUE))
    /\ c2n' = [c2n EXCEPT !.created = @ + 1]
    /\ ReverseAdvance
    /\ UNCHANGED << calendar, notion_items, gcal_events, n2c, result, prev,
                    run_fails, failures, exts, start_calendar, trVars, ovVars >>

\* lines 409-421: the page is created, its id is attached to the Event
ReverseAdopt ==
    /\ InReverse
    /\ Adoptable(gcal_events[i])
    /\ Len(notion) < MaxRec
    /\ LET ev == gcal_events[i]
           new_notion_id == Len(notion) + 1
       IN  /\ notion' = Append(notion, AdoptedPage(ev))
           /\ adopted_from' = Append(adopted_from, ev.id)
           /\ calendar' = [calendar EXCEPT ![ev.id] = Stored(ev, new_notion_id)]
           /\ calls' = calls \o
                  << Call("reverse", "pages.create", new_notion_id, ev.id, TRUE),
                     Call("reverse", "events.update", new_notion_id, ev.id, TRUE) >>
    /\ c2n' = [c2n EXCEPT !.created = @ + 1]
    /\ ReverseAdvance
    /\ UNCHANGED << notion_items, gcal_events, n2c, result, prev, run_fails,
                    failures, exts, start_calendar, trVars, ovVars >>

\* lines 137-139, 410: the create answers a status other than 200: no page,
\* no exception, the loop continues
ReverseAdoptRefused ==
    /\ InReverse
    /\ Adoptable(gcal_events[i])
    /\ failures < MaxFail
    /\ failures' = failures + 1
    /\ run_fails' = run_fails \cup {"create_refused"}
    /\ calls' = Append(calls, Call("reverse", "pages.create", 0,
                                   gcal_events[i].id, FALSE))
    /\ ReverseAdvance
    /\ UNCHANGED << storeVars, notion_items, gcal_events, n2c, c2n, result,
                    prev, exts, start_calendar, trVars, ovVars >>

\* lines 415-419 raise after line 409 succeeded: the page exists, the Event
\* has no notion_id, the pass ends
ReverseAttachFails ==
    /\ InReverse
    /\ Adoptable(gcal_events[i])
    /\ Len(notion) < MaxRec
    /\ LET ev == gcal_events[i]
           new_notion_id == Len(notion) + 1
       IN  /\ notion' = Append(notion, AdoptedPage(ev))
           /\ adopted_from' = Append(adopted_from, ev.id)
           /\ failures < MaxFail
           /\ failures' = failures + 1
           /\ run_fails' = run_fails \cup {"attach"}
           /\ calls' = calls \o
                  << Call("reverse", "pages.create", new_notion_id, ev.id, TRUE),
                     Call("reverse", "events.update", new_notion_id, ev.id, FALSE) >>
    /\ i' = 0
    /\ pc' = "finish"
    /\ UNCHANGED << calendar, notion_items, gcal_events, n2c, c2n, result,
                    prev, exts, start_calendar, trVars, ovVars >>

\* lines 408, 422: no notion_id and no start date: nothing is done
ReverseNoRange ==
    /\ InReverse
    /\ IsNative(gcal_events[i])
    /\ ~Adoptable(gcal_events[i])
    /\ ReverseAdvance
    /\ UNCHANGED << storeVars, notion_items, gcal_events, n2c, c2n, result,
                    prev, calls, run_fails, failures, exts,
                    start_calendar, trVars, ovVars >>

\* lines 425-433: the notion_id is not among the fetched Records: the Event
\* is deleted; no counter is touched
ReverseDelete ==
    /\ InReverse
    /\ ~IsNative(gcal_events[i])
    /\ gcal_events[i].link \notin notion_ids
    /\ LET ev == gcal_events[i]
       IN  /\ calendar' = [calendar EXCEPT ![ev.id] = Cancelled(@)]
           /\ calls' = Append(calls, Call("reverse", "events.delete", ev.link,
                                          ev.id, TRUE))
    /\ ReverseAdvance
    /\ UNCHANGED << notion, adopted_from, notion_items, gcal_events, n2c, c2n,
                    result, prev, run_fails, failures, exts,
                    start_calendar, trVars, ovVars >>

\* the test of lines 446-451 without the comparison of the titles
NeedsUpdateAlways(ev) ==
    /\ ~IsNative(ev)
    /\ ev.link \in notion_ids
    /\ Truthy(gcal_event_to_notion_date(ev)[1])

\* lines 436-451: the Record is among the fetched ones; the titles differ
\* and the Event has a start
NeedsUpdate(ev) ==
    /\ ~IsNative(ev)
    /\ ev.link \in notion_ids
    /\ SummaryOf(ev) # extract_title_from_notion(notion_map(ev.link))
    /\ Truthy(gcal_event_to_notion_date(ev)[1])

\* update_notion_page, lines 83-96: the title and the date that are sent
UpdatedPage(page, title, start_date, end_date) ==
    [page EXCEPT !.title = title, !.date = DateProperty(start_date, end_date)]

\* lines 451-454: the page is updated with the Event's title and dates
ReverseUpdate ==
    /\ InReverse
    /\ NeedsUpdate(gcal_events[i])
    /\ LET ev == gcal_events[i]
           se == gcal_event_to_notion_date(ev)
       IN  /\ ~notion[ev.link].archived
           /\ notion' = [notion EXCEPT
                            ![ev.link] = UpdatedPage(@, SummaryOf(ev), se[1], se[2])]
           /\ calls' = Append(calls, Call("reverse", "pages.update", ev.link,
                                          ev.id, TRUE))
    /\ c2n' = [c2n EXCEPT !.updated = @ + 1]
    /\ ReverseAdvance
    /\ UNCHANGED << calendar, adopted_from, notion_items, gcal_events, n2c,
                    result, prev, run_fails, failures, exts,
                    start_calendar, trVars, ovVars >>

\* line 103, 452: the update answers a status other than 200: not counted
ReverseUpdateRefused ==
    /\ InReverse
    /\ NeedsUpdate(gcal_events[i])
    /\ failures < MaxFail
    /\ failures' = failures + 1
    /\ run_fails' = run_fails \cup {"update_refused"}
    /\ calls' = Append(calls, Call("reverse", "pages.update",
                                   gcal_events[i].link, gcal_events[i].id, FALSE))
    /\ ReverseAdvance
    /\ UNCHANGED << storeVars, notion_items, gcal_events, n2c, c2n, result,
                    prev, exts, start_calendar, trVars, ovVars >>

\* lines 460-461: the call of the iteration raises (the create of a page,
\* the delete of an Event or the update of a page): the pass ends
ReverseCallRaises ==
    /\ InReverse
    /\ LET ev == gcal_events[i]
       IN  /\ Adoptable(ev) \/ (~IsNative(ev) /\ ev.link \notin notion_ids)
                            \/ NeedsUpdate(ev)
           /\ ReverseAbort(
                  "reverse_call",
                  Call("reverse",
                       IF Adoptable(ev) THEN "pages.create"
                       ELSE IF NeedsUpdate(ev) THEN "pages.update"
                       ELSE "events.delete",
                       ev.link, ev.id, FALSE))
    /\ UNCHANGED << storeVars, notion_items, gcal_events, n2c, c2n, result,
                    prev, exts, start_calendar, trVars, ovVars >>

\* lines 446-451: the titles agree, or the Event has no start: nothing
ReverseKeep ==
    /\ InReverse
    /\ ~IsNative(gcal_events[i])
    /\ gcal_events[i].link \in notion_ids
    /\ ~NeedsUpdate(gcal_events[i])
    /\ ReverseAdvance
    /\ UNCHANGED << storeVars, notion_items, gcal_events, n2c, c2n, result,
                    prev, calls, run_fails, failures, exts,
                    start_calendar, trVars, ovVars >>

\* main(), lines 505-519 and 543: the counts are returned
Finish ==
    /\ pc = "finish"
    /\ result' = [status |-> "completed",
                  notion_items_found |-> Len(notion_items),
                  notion_to_calendar |-> n2c,
                  calendar_to_notion |-> c2n]
    /\ pc' = "done"
    /\ UNCHANGED << storeVars, notion_items, i, gcal_events, n2c, c2n, prev,
                    calls, run_fails, failures, exts, start_calendar,
                    trVars, ovVars >>

(***************************************************************************)
(* Two executions of main() on the same database and calendar.  Nothing in *)
(* main() takes a lock, and no call is conditional on what the other       *)
(* execution did.  The variables of the run hold the execution that steps, *)
(* `other' holds the one that waits.  The Forward Pass is taken call by    *)
(* call here: the other execution can step between the lookup of line 299  *)
(* and the update or the insert that follows it.                           *)
(***************************************************************************)
\* the execution that waits takes the next steps
Switch ==
    /\ switches < MaxSwitch
    /\ switches' = switches + 1
    /\ other' = [pc |-> pc, notion_items |-> notion_items, i |-> i,
                 gcal_events |-> gcal_events, n2c |-> n2c, c2n |-> c2n,
                 result |-> result, prev |-> prev, calls |-> calls,
                 run_fails |-> run_fails, start_calendar |-> start_calendar,
                 lookup |-> lookup]
    /\ pc' = other.pc
    /\ notion_items' = other.notion_items
    /\ i' = other.i
    /\ gcal_events' = other.gcal_events
    /\ n2c' = other.n2c
    /\ c2n' = other.c2n
    /\ result' = other.result
    /\ prev' = other.prev
    /\ calls' = other.calls
    /\ run_fails' = other.run_fails
    /\ start_calendar' = other.start_calendar
    /\ lookup' = other.lookup
    /\ UNCHANGED << storeVars, failures, exts, trVars, outdated >>

\* the ids of a list of Events
IdsOf(events) == {events[k].id : k \in DOMAIN events}

\* the lookup of the Record would not be answered now as it was
LookupOutdated(notion_id) ==
    IdsOf(lookup) # IdsOf(events_list_by_link(calendar, notion_id))

\* lines 289-302: an event is derived and the lookup is answered
ForwardLookup ==
    /\ InForward
    /\ notion_to_calendar_event(notion_items[i]) # << >>
    /\ lookup' = events_list_by_link(calendar, notion_items[i].id)
    /\ calls' = Append(calls, Call("forward", "events.list",
                                   notion_items[i].id, 0, TRUE))
    /\ pc' = "write"
    /\ UNCHANGED << storeVars, notion_items, i, gcal_events, n2c, c2n, result,
                    prev, run_fails, failures, exts, start_calendar, trVars,
                    other, outdated, switches >>

\* the found branch inserting instead of updating, after the lookup
UpdateExistingInserts ==
    /\ pc = "write"
    /\ lookup # << >>
    /\ Len(calendar) < MaxEv
    /\ LET item == notion_items[i]
       IN  /\ calendar' = Append(calendar, ForwardBody(item))
           /\ calls' = Append(calls, Call("forward", "events.insert", item.id,
                                          Len(calendar) + 1, TRUE))
           /\ outdated' = IF LookupOutdated(item.id)
                          THEN outdated \cup {Len(calendar) + 1} ELSE outdated
    /\ n2c' = [n2c EXCEPT !.updated = @ + 1]
    /\ lookup' = << >>
    /\ ForwardAdvance
    /\ UNCHANGED << notion, adopted_from, notion_items, gcal_events, c2n,
                    result, prev, run_fails, failures, exts, start_calendar,
                    trVars, other, switches >>

\* lines 304-313: the lookup found an Event: the first one is replaced by
\* the body, whatever the calendar holds by now
UpdateExisting ==
    /\ pc = "write"
    /\ lookup # << >>
    /\ LET item == notion_items[i]
           existing_event_id == lookup[1].id
       IN  /\ calendar' = [calendar EXCEPT
                              ![existing_event_id] = ForwardBody(item)]
           /\ calls' = Append(calls, Call("forward", "events.update", item.id,
                                          existing_event_id, TRUE))
           /\ outdated' = IF LookupOutdated(item.id)
                          THEN outdated \cup {existing_event_id} ELSE outdated
    /\ n2c' = [n2c EXCEPT !.updated = @ + 1]
    /\ lookup' = << >>
    /\ ForwardAdvance
    /\ UNCHANGED << notion, adopted_from, notion_items, gcal_events, c2n,
                    result, prev, run_fails, failures, exts, start_calendar,
                    trVars, other, switches >>

\* lines 314-321: the lookup found none: an Event is inserted, whatever the
\* calendar holds by now
InsertNew ==
    /\ pc = "write"
    /\ lookup = << >>
    /\ Len(calendar) < MaxEv
    /\ LET item == notion_items[i]
       IN  /\ calendar' = Append(calendar, ForwardBody(item))
           /\ calls' = Append(calls, Call("forward", "events.insert", item.id,
                                          Len(calendar) + 1, TRUE))
           /\ outdated' = IF LookupOutdated(item.id)
                          THEN outdated \cup {Len(calendar) + 1} ELSE outdated
    /\ n2c' = [n2c EXCEPT !.created = @ + 1]
    /\ ForwardAdvance
    /\ UNCHANGED << notion, adopted_from, notion_items, gcal_events, c2n,
                    result, prev, run_fails, failures, exts, start_calendar,
                    trVars, lookup, other, switches >>

(***************************************************************************)
(* The users of the two stores, between runs.  What they enter is drawn    *)
(* from small sets.                                                        *)
(***************************************************************************)
UserTitles == {"Standup", ""}

UserDates ==
    {NoDate,
     [start |-> DayStr(1), end |-> NoneStr],
     [start |-> DayStr(1), end |-> DayStr(MaxDay)]}

UserSummaries == {"Retro", NoSummary}

\* <<start, end>> of an Event made on the calendar: all-day from day 1 up
\* to MaxDay (exclusive), timed, and one without a start
UserTimes ==
    {<< TimeDict("date", DayStr(1)), TimeDict("date", DayStr(MaxDay)) >>,
     << TimeDict("dateTime", InstantStr(1, 10, "Z")),
        TimeDict("dateTime", InstantStr(1, 11, "Z")) >>,
     << NoTime, NoTime >>}

LivePages == {k \in DOMAIN notion : ~notion[k].archived}

LiveEvents == {k \in DOMAIN calendar : calendar[k].status = "confirmed"}

\* an external change ends what is remembered of the last run
External ==
    /\ Idle
    /\ exts < MaxExt
    /\ exts' = exts + 1
    /\ pc' = "idle"
    /\ notion_items' = << >>
    /\ i' = 0
    /\ gcal_events' = << >>
    /\ n2c' = ZeroN2C
    /\ c2n' = ZeroC2N
    /\ result' = NoResult
    /\ prev' = NoPrev
    /\ calls' = << >>
    /\ run_fails' = {}
    /\ start_calendar' = << >>
    /\ UNCHANGED << failures, trVars, ovVars >>

UserCreatesRecord ==
    /\ External
    /\ Len(notion) < MaxRec
    /\ \E t \in UserTitles, d \in UserDates :
          notion' = Append(notion, [title |-> t, date |-> d, archived |-> FALSE])
    /\ adopted_from' = Append(adopted_from, 0)
    /\ UNCHANGED calendar

\* one property of a page is edited at a time: the title or the date
UserEditsRecord ==
    /\ External
    /\ \E k \in LivePages, t \in UserTitles, d \in UserDates :
          /\ << t, d >> # << notion[k].title, notion[k].date >>
          /\ t = notion[k].title \/ d = notion[k].date
          /\ notion' = [notion EXCEPT ![k] = [@ EXCEPT !.title = t, !.date = d]]
    /\ UNCHANGED << calendar, adopted_from >>

\* a page is created with a title, and any of the dates
UserCreatesTitled ==
    /\ External
    /\ Len(notion) < MaxRec
    /\ \E d \in UserDates :
          notion' = Append(notion, [title |-> "Standup", date |-> d,
                                    archived |-> FALSE])
    /\ adopted_from' = Append(adopted_from, 0)
    /\ UNCHANGED calendar

\* the date of a page is edited, its title is left alone
UserEditsDate ==
    /\ External
    /\ \E k \in LivePages, d \in UserDates :
          /\ d # notion[k].date
          /\ notion' = [notion EXCEPT ![k] = [@ EXCEPT !.date = d]]
    /\ UNCHANGED << calendar, adopted_from >>

\* a page deleted in Notion is archived; the query no longer returns it
UserDeletesRecord ==
    /\ External
    /\ \E k \in LivePages : notion' = [notion EXCEPT ![k].archived = TRUE]
    /\ UNCHANGED << calendar, adopted_from >>

UserCreatesEvent ==
    /\ External
    /\ Len(calendar) < MaxEv
    /\ \E t \in UserSummaries, se \in UserTimes :
          calendar' = Append(calendar,
                             [summary |-> t, description |-> 0, start |-> se[1],
                              end |-> se[2], link |-> 0, status |-> "confirmed"])
    /\ UNCHANGED << notion, adopted_from >>

UserRenamesEvent ==
    /\ External
    /\ \E k \in LiveEvents, t \in UserSummaries \ {NoSummary} :
          /\ t # calendar[k].summary
          /\ calendar' = [calendar EXCEPT ![k].summary = t]
    /\ UNCHANGED << notion, adopted_from >>

UserDeletesEvent ==
    /\ External
    /\ \E k \in LiveEvents : calendar' = [calendar EXCEPT ![k] = Cancelled(@)]
    /\ UNCHANGED << notion, adopted_from >>

\* a run of main() in which every call succeeds
Run ==
    \/ Start
    \/ ForwardSkip
    \/ ForwardUpdate
    \/ ForwardCreate
    \/ Sweep
    \/ ReverseList
    \/ ReverseAdopt
    \/ ReverseNoRange
    \/ ReverseUpdate
    \/ ReverseKeep
    \/ Finish

User ==
    \/ UserCreatesRecord
    \/ UserEditsRecord
    \/ UserDeletesRecord
    \/ UserCreatesEvent
    \/ UserRenamesEvent
    \/ UserDeletesEvent

\* the steps that a failing call makes possible; the Reverse Pass meets an
\* Event of a Record that was not fetched only after a sweep that failed
Failing ==
    \/ StartFetchFails
    \/ ForwardLookupFails
    \/ ForwardWriteFails
    \/ SweepListFails
    \/ SweepDeleteFails
    \/ ReverseListFails
    \/ ReverseAdoptRefused
    \/ ReverseAttachFails
    \/ ReverseDelete
    \/ ReverseUpdateRefused
    \/ ReverseCallRaises

\* the failures inside the Forward Pass, and what the Reverse Pass does
\* with an Event the sweep has left
FailingForward ==
    \/ ForwardLookupFails
    \/ ForwardWriteFails
    \/ SweepListFails
    \/ SweepDeleteFails
    \/ ReverseDelete

\* the failures that end main() before the passes
FailingEarly ==
    \/ ConfigMissing
    \/ FetchRaises
    \/ ClientFails

Next == Run \/ User

\* the runs and the users of a calendar that only the sync writes to, and
\* of a database whose pages have a title that is not edited: no Event is
\* without a link, and none has another title than its Record
RunLinked ==
    \/ Start
    \/ ForwardSkip
    \/ ForwardUpdate
    \/ ForwardCreate
    \/ Sweep
    \/ ReverseList
    \/ ReverseKeep
    \/ Finish

UserOfRecords ==
    \/ UserCreatesTitled
    \/ UserEditsDate
    \/ UserDeletesRecord

NextForward == RunLinked \/ UserOfRecords \/ FailingForward

NextMain == Run \/ User \/ Failing \/ FailingEarly

NextFail == Run \/ User \/ Failing

\* serialised runs in which every call succeeds, and the users' changes
Spec == Init /\ [][Next]_vars

\* the same, with at most MaxFail failing calls
SpecFail == Init /\ [][NextFail]_vars

\* serialised runs with at most MaxFail failing calls, all of them inside
\* the Forward Pass, on a calendar that only the sync writes to
SpecForward == Init /\ [][NextForward]_vars

\* the same, and the failures before the passes
SpecMain == Init /\ [][NextMain]_vars

\* one execution of main(), call by call in the Forward Pass, on a calendar
\* that only the sync writes to
RunByCall ==
    \/ Start
    \/ ForwardSkip
    \/ ForwardLookup
    \/ UpdateExisting
    \/ InsertNew
    \/ Sweep
    \/ ReverseList
    \/ ReverseKeep
    \/ Finish

\* the databases the two executions find: up to MaxRec pages with a title,
\* and any of the dates
Databases ==
    UNION {[1 .. n -> {[title |-> "Standup", date |-> d, archived |-> FALSE] :
                          d \in UserDates}] : n \in 0 .. MaxRec}

\* the users have made their pages, the calendar is empty, no execution has
\* started
InitOverlapping ==
    /\ notion \in Databases
    /\ calendar = << >>
    /\ adopted_from = [k \in DOMAIN notion |-> 0]
    /\ InitRun /\ InitTr /\ InitOverlap

NextOverlap == RunByCall \/ Switch

\* two executions of main() that overlap, and run again after they
\* returned, every call answered, on a database that is not edited
\* meanwhile: both fetch the same Records, so no sweep finds an Event to
\* delete and every Event has the title of its Record
SpecOverlap == InitOverlapping /\ [][NextOverlap]_vars

(***************************************************************************)
(* Vocabulary of the properties.                                           *)
(***************************************************************************)
\* no call of the run in progress (or just finished) has failed
RunOK == run_fails = {}

\* no call inside the Forward Pass has failed
ForwardOK == run_fails \subseteq {"fetch"}

\* the run before was failure-free and nothing happened since
AfterCleanRun == prev.valid /\ prev.fails = {}

Items == Range(notion_items)

\* a fetched Record is sync-eligible when an event is derived from it
Eligible(item) == Truthy(item.date.start)

LiveIn(cal) == {k \in DOMAIN cal : cal[k].status = "confirmed"}

\* the Events of a calendar that carry the Record id r
LinkedIn(cal, r) == {k \in LiveIn(cal) : cal[k].link = r}

\* the calls of the run that satisfy P
CallsWhere(P(_)) == {k \in DOMAIN calls : P(calls[k])}

ForwardReturned == pc = "reverse"

ReverseReturned == pc = "finish"

\* C1 ---------------------------------------------------------------------
\* C1 as stated: when main runs twice in succession with no failure and no
\* external change in between, the second run reports zero created, zero
\* updated and zero deleted in both directions, and the skipped count of
\* the first run.
C1_SecondRunAllZero ==
    (pc = "done" /\ RunOK /\ AfterCleanRun) =>
        /\ result.notion_to_calendar.created = 0
        /\ result.notion_to_calendar.updated = 0
        /\ result.notion_to_calendar.deleted = 0
        /\ result.calendar_to_notion = ZeroC2N
        /\ result.notion_to_calendar.skipped
               = prev.result.notion_to_calendar.skipped

\* C1 as amended: the second of two such runs creates nothing and deletes
\* nothing in either direction and updates no Record; its Forward Pass
\* still updates the Event of every sync-eligible Record it fetched and
\* counts each, and skips every fetched Record without a date, which are
\* never more than the first run skipped.
C1_SecondRunCounts ==
    (pc = "done" /\ RunOK /\ AfterCleanRun) =>
        /\ result.status = "completed"
        /\ result.notion_to_calendar.created = 0
        /\ result.notion_to_calendar.deleted = 0
        /\ result.calendar_to_notion = ZeroC2N
        /\ result.notion_to_calendar.updated
               = Cardinality({it \in Items : Eligible(it)})
        /\ result.notion_to_calendar.skipped
               = Cardinality({it \in Items : ~Eligible(it)})
        /\ result.notion_to_calendar.skipped
               <= prev.result.notion_to_calendar.skipped

\* a second run that updated an Event and skipped fewer Records than the first
C1_Witness ==
    /\ pc = "done" /\ RunOK /\ AfterCleanRun
    /\ result.notion_to_calendar.updated > 0
    /\ result.notion_to_calendar.skipped
           < prev.result.notion_to_calendar.skipped

\* C2 ---------------------------------------------------------------------
\* no two Records stand for the same Event: no two pages were created from
\* one Event
NoDuplicateRecord ==
    \A p \in LivePages, q \in LivePages :
        (p # q /\ adopted_from[p] # 0) => adopted_from[p] # adopted_from[q]

\* no two Events stand for the same Record: a page created from an Event
\* that is still on the calendar has no other Event linked to it
NoDuplicateEvent ==
    \A p \in LivePages :
        (adopted_from[p] # 0 /\ adopted_from[p] \in LiveEvents) =>
            \A e \in LiveEvents : calendar[e].link = p => e = adopted_from[p]

\* C2: a run in which exactly one call failed, followed by a failure-free
\* run with no external change in between, ends with no duplicated Record
\* and no duplicated Event.
C2_NoDuplicateAfterFailure ==
    (pc = "done" /\ RunOK /\ prev.valid /\ Cardinality(prev.fails) = 1
                 /\ failures = 1) =>
        NoDuplicateRecord /\ NoDuplicateEvent

\* C3 ---------------------------------------------------------------------
\* the fetched sync-eligible Records that an Event carried when the run began
Relinked == {it \in Items : Eligible(it) /\ LinkedIn(start_calendar, it.id) # {}}

ForwardCallsFor(op, r) ==
    CallsWhere(LAMBDA c : c.pass = "forward" /\ c.op = op /\ c.rec = r)

\* C3: for every sync-eligible Record that an Event already carries, the
\* Forward Pass issues exactly one events().update and no events().insert,
\* and as many Events carry the Record's id after the pass as before.
C3_NoDuplicateOnRelink ==
    (ForwardReturned /\ ForwardOK) =>
        \A it \in Relinked :
            /\ Cardinality(ForwardCallsFor("events.update", it.id)) = 1
            /\ ForwardCallsFor("events.insert", it.id) = {}
            /\ Cardinality(LinkedIn(calendar, it.id))
                   = Cardinality(LinkedIn(start_calendar, it.id))

C3_Witness == ForwardReturned /\ ForwardOK /\ Relinked # {}

\* C4 ---------------------------------------------------------------------
\* C4: every Event on the calendar carries no link or the id of one Record
\* that was created, and no two Events carry the same Record id.
C4_LinkOneToOne ==
    /\ \A e \in LiveEvents : calendar[e].link \in {0} \cup DOMAIN notion
    /\ \A e \in LiveEvents, f \in LiveEvents :
           (calendar[e].link # 0 /\ calendar[e].link = calendar[f].link) => e = f

\* two linked Events, after a run and a change made by a user
C4_Witness ==
    /\ pc = "done"
    /\ exts > 0
    /\ Cardinality({e \in LiveEvents : calendar[e].link # 0}) >= 2

\* C5 ---------------------------------------------------------------------
\* the Events the run has deleted so far
DeletedByRun == LiveIn(start_calendar) \ LiveEvents

\* the Events that carried, when the run began, the id of a Record that was
\* not fetched
OrphansAtStart ==
    {e \in LiveIn(start_calendar) :
        start_calendar[e].link # 0 /\ start_calendar[e].link \notin notion_ids}

\* C5: with no call failing, the Forward Pass deletes exactly the Events
\* that carry the id of a Record outside the fetched id set, and returns
\* their number as deleted.
C5_OrphanCleanup ==
    (ForwardReturned /\ ForwardOK) =>
        /\ DeletedByRun = OrphansAtStart
        /\ \A e \in DeletedByRun :
               start_calendar[e].link # 0 /\ start_calendar[e].link \notin notion_ids
        /\ n2c.deleted = Cardinality(DeletedByRun)

\* one orphan deleted, beside an Event that is kept
C5_Witness ==
    /\ ForwardReturned /\ ForwardOK
    /\ n2c.deleted = 1
    /\ LiveEvents # {}

\* C6 ---------------------------------------------------------------------
Listed == Range(gcal_events)

ReverseCallsOn(op, e) ==
    CallsWhere(LAMBDA c : c.pass = "reverse" /\ c.op = op /\ c.ev = e)

\* the page made for Event ev is new, holds the Event's title and range,
\* and its id is the Event's link
AdoptedAs(ev, r) ==
    /\ r \in DOMAIN notion
    /\ r \notin notion_ids
    /\ adopted_from[r] = ev.id
    /\ notion[r] = [title |-> SummaryOf(ev),
                    date |-> DateProperty(gcal_event_to_notion_date(ev)[1],
                                          gcal_event_to_notion_date(ev)[2]),
                    archived |-> FALSE]
    /\ calendar[ev.id].link = r
    /\ calendar[ev.id] = Stored(ev, r)

\* C6: with no call failing, the Reverse Pass performs for every Event
\* without a link and with a derivable range exactly one Record creation
\* and one Event update, after which the Event's link is the new Record's
\* id, and counts it as created; for an Event without a link and without a
\* derivable range it creates nothing, updates nothing and counts nothing.
C6_NativeAdoption ==
    (ReverseReturned /\ RunOK) =>
        /\ \A ev \in Listed :
              (ev.link = 0 /\ Truthy(gcal_event_to_notion_date(ev)[1])) =>
                  /\ Cardinality(ReverseCallsOn("pages.create", ev.id)) = 1
                  /\ Cardinality(ReverseCallsOn("events.update", ev.id)) = 1
                  /\ \E k \in ReverseCallsOn("pages.create", ev.id) :
                         AdoptedAs(ev, calls[k].rec)
        /\ \A ev \in Listed :
              (ev.link = 0 /\ ~Truthy(gcal_event_to_notion_date(ev)[1])) =>
                  /\ ReverseCallsOn("pages.create", ev.id) = {}
                  /\ ReverseCallsOn("events.update", ev.id) = {}
                  /\ calendar[ev.id] = Stored(ev, 0)
        /\ c2n.created
               = Cardinality({ev \in Listed :
                     ev.link = 0 /\ Truthy(gcal_event_to_notion_date(ev)[1])})

\* one Event adopted and one Event without a start left alone, in one pass
C6_Witness ==
    /\ ReverseReturned /\ RunOK
    /\ c2n.created = 1
    /\ \E ev \in Listed : ev.link = 0 /\ ev.start.key = "none"

\* C7 ---------------------------------------------------------------------
\* the fetched Records whose Event had been deleted when the run began:
\* a deleted Event carries the id, and no Event of the calendar does
LostEvent ==
    {it \in Items :
        /\ LinkedIn(start_calendar, it.id) = {}
        /\ \E e \in DOMAIN start_calendar :
               start_calendar[e].status = "cancelled"
               /\ start_calendar[e].link = it.id}

\* C7: the Reverse Pass of the next run archives a Record whose linked
\* Event was deleted from the calendar.
C7_ArchivedOnEventLoss ==
    (pc = "done" /\ RunOK) =>
        \A it \in LostEvent : notion[it.id].archived

\* what the run does for such a Record instead: it leaves the Record as it
\* was and, when the Record is sync-eligible, its Forward Pass inserts one
\* new Event that carries the Record's id.
EventLossRecreates ==
    (pc = "done" /\ RunOK) =>
        \A it \in LostEvent :
            /\ notion[it.id] = [title |-> it.title, date |-> it.date,
                                archived |-> FALSE]
            /\ Eligible(it) =>
                   /\ Cardinality(ForwardCallsFor("events.insert", it.id)) = 1
                   /\ ForwardCallsFor("events.update", it.id) = {}
                   /\ Cardinality(LinkedIn(calendar, it.id)) = 1
                   /\ LinkedIn(calendar, it.id) \cap DOMAIN start_calendar = {}
            /\ ~Eligible(it) => LinkedIn(calendar, it.id) = {}

EventLossSeen ==
    pc = "done" /\ RunOK /\ \E it \in LostEvent : Eligible(it)

\* C10 --------------------------------------------------------------------
\* the Record set is one Record r1, "Standup" on 2024-03-01 with no end,
\* and no Event carries r1's id
r1 == notion_items[1]

StandupScenario ==
    /\ Len(notion_items) = 1
    /\ r1.title = "Standup"
    /\ r1.date = [start |-> DayStr(1), end |-> NoneStr]
    /\ LinkedIn(start_calendar, r1.id) = {}

\* what the Forward Pass does for r1: one insert and no update; the Event
\* made has the Record's title, starts on the Record's day, ends on the
\* next day and carries r1's id; created 1, updated 0, skipped 0
StandupCreated ==
    /\ Cardinality(ForwardCallsFor("events.insert", r1.id)) = 1
    /\ CallsWhere(LAMBDA c : c.pass = "forward" /\ c.op = "events.update") = {}
    /\ \A k \in ForwardCallsFor("events.insert", r1.id) :
           /\ calls[k].ev \notin DOMAIN start_calendar
           /\ calendar[calls[k].ev]
                  = [summary |-> "Standup", description |-> r1.id,
                     start |-> TimeDict("date", DayStr(1)),
                     end |-> TimeDict("date", DayStr(2)),
                     link |-> r1.id, status |-> "confirmed"]
    /\ n2c.created = 1 /\ n2c.updated = 0 /\ n2c.skipped = 0

\* C10 as stated: for the Record set of r1 alone and a calendar with no
\* Event linked to r1, the Forward Pass issues one create and no update,
\* the Event has the Record's title, start 2024-03-01, end 2024-03-02 and
\* link r1, and the counts are created 1, updated 0, skipped 0, deleted 0.
C10_ForwardCreateNoDelete ==
    (ForwardReturned /\ ForwardOK /\ StandupScenario) =>
        StandupCreated /\ n2c.deleted = 0

\* C10 as amended: the same, except that deleted is the number of Events
\* that carried the id of a Record outside the set when the pass began; it
\* is 0 when the calendar holds no Event with a link.
C10_ForwardCreate ==
    (ForwardReturned /\ ForwardOK /\ StandupScenario) =>
        /\ StandupCreated
        /\ n2c.deleted = Cardinality(OrphansAtStart)
        /\ (\A e \in LiveIn(start_calendar) : start_calendar[e].link = 0)
               => n2c.deleted = 0

\* r1 created beside a native Event that is left alone
C10_Witness ==
    /\ ForwardReturned /\ ForwardOK /\ StandupScenario
    /\ n2c = [created |-> 1, updated |-> 0, skipped |-> 0, deleted |-> 0]
    /\ LiveIn(start_calendar) # {}

\* C8 ---------------------------------------------------------------------
DayRange(r) ==
    r.start.kind = "day" /\ r.end.kind = "day" /\ r.end.day > r.start.day

\* C8: for every day-granularity range whose end is later than its start,
\* notion_to_calendar_event ends the Event one day after the Record's end,
\* and gcal_event_to_notion_date on that Event returns the Record's start
\* and end.
C8_DayRangeRoundTrip ==
    (tr_pc = "back" /\ DayRange(tr_rec)) =>
        /\ tr_event[1].end = TimeDict("date", DayStr(tr_rec.end.day + 1))
        /\ tr_back = << tr_rec.start, tr_rec.end >>

\* C9 ---------------------------------------------------------------------
\* the position of an instant on the time line, in hours
HourOf(s) == 24 * s.day + s.hour

\* C9 as stated: with start set and end unset the Event starts at the
\* Record's start and ends one day later for a day, one hour later for an
\* instant, written as the start is written ("...T10:00:00Z" gives
\* "...T11:00:00Z"); with end set the Event's end is the Record's end.
C9_EndSameNotation ==
    (tr_pc = "event" /\ Truthy(tr_rec.start)) =>
        LET ev == tr_event[1]
        IN  /\ ev.start.val = tr_rec.start
            /\ (tr_rec.start.kind = "day" /\ ~Truthy(tr_rec.end)) =>
                   ev.end = TimeDict("date", DayStr(tr_rec.start.day + 1))
            /\ (tr_rec.start.kind = "instant" /\ ~Truthy(tr_rec.end)) =>
                   /\ ev.end.key = "dateTime"
                   /\ ev.end.val.kind = "instant"
                   /\ HourOf(ev.end.val) = HourOf(tr_rec.start) + 1
                   /\ ev.end.val.zone = tr_rec.start.zone
            /\ Truthy(tr_rec.end) => ev.end.val = tr_rec.end

\* C9 as amended: the same, except that the end synthesized for an instant
\* is written with a numeric offset, "+00:00" where the start has "Z"
\* ("...T10:00:00Z" gives "...T11:00:00+00:00"), and that a start which is
\* neither a day nor a parseable instant gets an end equal to the start.
C9_EndSynthesis ==
    (tr_pc = "event" /\ Truthy(tr_rec.start)) =>
        LET ev == tr_event[1]
        IN  /\ ev.start.val = tr_rec.start
            /\ ev.start.key = ev.end.key
            /\ ev.start.key = IF tr_rec.start.kind = "day" THEN "date"
                              ELSE "dateTime"
            /\ (tr_rec.start.kind = "day" /\ ~Truthy(tr_rec.end)) =>
                   ev.end.val = DayStr(tr_rec.start.day + 1)
            /\ (tr_rec.start.kind = "instant" /\ ~Truthy(tr_rec.end)) =>
                   /\ ev.end.val.kind = "instant"
                   /\ HourOf(ev.end.val) = HourOf(tr_rec.start) + 1
                   /\ ev.end.val.hour \in 0 .. 23
                   /\ ev.end.val.zone = IF tr_rec.start.zone = "Z" THEN "+00:00"
                                        ELSE tr_rec.start.zone
            /\ (tr_rec.start.kind = "bad" /\ ~Truthy(tr_rec.end)) =>
                   ev.end.val = tr_rec.start
            /\ Truthy(tr_rec.end) => ev.end.val = tr_rec.end

\* "2024-03-01T10:00:00Z" without an end, converted
C9_Witness ==
    /\ tr_pc = "event"
    /\ tr_rec = [start |-> InstantStr(1, 10, "Z"), end |-> NoneStr]
    /\ tr_event[1].end.val = InstantStr(1, 11, "+00:00")

\* C11 --------------------------------------------------------------------
\* main() has ended, in whatever way
Ended == pc \in {"done", "exited", "raised"}

\* C11: whatever fails, main() ends by returning a result that holds a
\* status or an error; it never exits and never raises.
C11_EveryFailureAnswered ==
    Ended => (pc = "done" /\ result.status \in {"completed", "error"})

\* C12 --------------------------------------------------------------------
\* C12: for every Event whose link names a fetched Record, the Reverse Pass
\* leaves the Record's date range as it was fetched, also when the titles
\* differ and the Record is updated.
C12_ReverseKeepsDates ==
    ReverseReturned =>
        \A ev \in Listed :
            ev.link \in notion_ids =>
                notion[ev.link].date = notion_map(ev.link).date

\* C13 --------------------------------------------------------------------
\* no call inside the Reverse Pass has failed
ReverseOK ==
    run_fails \cap {"reverse_list", "create_refused", "attach",
                    "update_refused", "reverse_call"} = {}

\* the listed Events that carry the id of a Record that was not fetched
ListedOrphans == {ev \in Listed : ev.link # 0 /\ ev.link \notin notion_ids}

ReverseDeletes ==
    CallsWhere(LAMBDA c : c.pass = "reverse" /\ c.op = "events.delete" /\ c.ok)

\* C13: the Reverse Pass deletes every Event whose link names a Record that
\* was not fetched, issues no Record call for it, and returns as deleted
\* the number of Events it deleted.
C13_ReverseCountsDeletes ==
    (ReverseReturned /\ ReverseOK) =>
        /\ \A ev \in ListedOrphans :
               /\ calendar[ev.id].status = "cancelled"
               /\ ReverseCallsOn("pages.create", ev.id) = {}
               /\ ReverseCallsOn("pages.update", ev.id) = {}
        /\ c2n.deleted = Cardinality(ReverseDeletes)

\* C14 --------------------------------------------------------------------
\* the Reverse Pass has reached the Event: the call its case requires was
\* issued (an Event that only needs comparing requires none)
Reached(ev) ==
    /\ Adoptable(ev) => ReverseCallsOn("pages.create", ev.id) # {}
    /\ ev \in ListedOrphans => ReverseCallsOn("events.delete", ev.id) # {}
    /\ NeedsUpdate(ev) => ReverseCallsOn("pages.update", ev.id) # {}

ReverseCallsOK(op) ==
    CallsWhere(LAMBDA c : c.pass = "reverse" /\ c.op = op /\ c.ok)

\* C14: when a create, update or delete call fails for one Event, the
\* counter of that Event is not incremented and the pass goes on: every
\* Event of the fetched list has been processed when the pass returns.
C14_ReverseIsolation ==
    (ReverseReturned /\ "reverse_list" \notin run_fails) =>
        /\ \A ev \in Listed : Reached(ev)
        /\ c2n.created <= Cardinality(ReverseCallsOK("pages.create"))
        /\ c2n.updated = Cardinality(ReverseCallsOK("pages.update"))

\* C15 --------------------------------------------------------------------
ForwardCallsOK(op) ==
    CallsWhere(LAMBDA c : c.pass = "forward" /\ c.op = op /\ c.ok)

\* the calls of the Forward Pass that failed
ForwardCallsFailed == CallsWhere(LAMBDA c : c.pass = "forward" /\ ~c.ok)

\* the listing of the deletion sweep
SweepLists ==
    CallsWhere(LAMBDA c : c.pass = "forward" /\ c.op = "events.list"
                          /\ c.rec = 0)

\* C15: when the lookup, the create or the update of one Record fails, no
\* counter is incremented for that Record, every other Record is still
\* processed, the sweep still runs and the pass returns its counts; when a
\* call of the sweep fails the sweep ends and the counts so far are
\* returned.
C15_ForwardIsolation ==
    ForwardReturned =>
        /\ \A it \in Items :
               Eligible(it) => ForwardCallsFor("events.list", it.id) # {}
        /\ n2c.skipped = Cardinality({k \in DOMAIN notion_items :
                                         ~Eligible(notion_items[k])})
        /\ n2c.created = Cardinality(ForwardCallsOK("events.insert"))
        /\ n2c.updated = Cardinality(ForwardCallsOK("events.update"))
        /\ n2c.deleted = Cardinality(ForwardCallsOK("events.delete"))
        /\ n2c.created + n2c.updated + n2c.skipped
               + Cardinality({k \in ForwardCallsFailed : calls[k].rec # 0
                                  /\ calls[k].op # "events.delete"})
               = Len(notion_items)
        /\ Cardinality(SweepLists) = 1
        /\ \A k \in ForwardCallsFailed, j \in DOMAIN calls :
               (calls[k].op \in {"events.delete"} \/ k \in SweepLists)
                   => j <= k \/ calls[j].pass # "forward"

\* the call for the first of two Records failed and the second was created
\* or updated
C15_Witness ==
    /\ ForwardReturned
    /\ \E k \in ForwardCallsFailed, j \in DOMAIN calls :
           /\ calls[k].rec # 0 /\ calls[k].op # "events.delete"
           /\ k < j
           /\ calls[j].pass = "forward" /\ calls[j].ok
           /\ calls[j].op \in {"events.insert", "events.update"}

\* C16 --------------------------------------------------------------------
\* C16: no run deletes an Event whose link names a Record that is still in
\* the database, not archived; a Record fetch that fails does not make the
\* sweep or the Reverse Pass delete linked Events.
C16_LiveRecordKeepsEvent ==
    \A e \in DeletedByRun : start_calendar[e].link \notin LivePages

\* C17 --------------------------------------------------------------------
\* the listed Events whose link names a fetched sync-eligible Record
ListedOfEligible ==
    {ev \in Listed : ev.link \in notion_ids /\ Eligible(notion_map(ev.link))}

\* C17: in a failure-free run every Event linked to a sync-eligible Record
\* has the Record's extracted title when the Reverse Pass compares them;
\* the pass issues no Record update for it, and a title edited on the
\* calendar is replaced by the Record's title, the Record keeping its own.
C17_CalendarTitleOverwritten ==
    (ReverseReturned /\ RunOK) =>
        \A ev \in ListedOfEligible :
            /\ SummaryOf(ev) = extract_title_from_notion(notion_map(ev.link))
            /\ calendar[ev.id].summary
                   = extract_title_from_notion(notion_map(ev.link))
            /\ ReverseCallsOn("pages.update", ev.id) = {}
            /\ notion[ev.link].title = notion_map(ev.link).title

\* an Event renamed on the calendar since the last run, compared
C17_Witness ==
    /\ ReverseReturned /\ RunOK
    /\ \E ev \in ListedOfEligible :
           /\ ev.id \in DOMAIN start_calendar
           /\ start_calendar[ev.id].link = ev.link
           /\ start_calendar[ev.id].summary = "Retro"
           /\ notion_map(ev.link).title = "Standup"

\* C18 --------------------------------------------------------------------
\* the Records are as they were fetched, and there is no other
RecordsAsFetched ==
    /\ LivePages = notion_ids
    /\ \A it \in Items :
           notion[it.id].title = it.title /\ notion[it.id].date = it.date

\* the Events have the title, the range and the link they had when the run
\* began, and there is no other
EventsAsAtStart ==
    /\ DOMAIN calendar = DOMAIN start_calendar
    /\ \A e \in DOMAIN calendar :
           /\ calendar[e].status = start_calendar[e].status
           /\ calendar[e].status = "confirmed" =>
                  /\ SummaryOf(calendar[e]) = SummaryOf(start_calendar[e])
                  /\ calendar[e].start = start_calendar[e].start
                  /\ calendar[e].end = start_calendar[e].end
                  /\ calendar[e].link = start_calendar[e].link

\* C18: a failure-free run that follows a failure-free run, with no change
\* from outside in between, leaves the title, the date range and the link
\* of every Record and of every Event as they were.
C18_SecondRunKeepsState ==
    (pc = "done" /\ RunOK /\ AfterCleanRun) =>
        RecordsAsFetched /\ EventsAsAtStart

\* C19 --------------------------------------------------------------------
\* the fetched Records from which no start time is derived
Dateless == {it \in Items : ~Eligible(it)}

ForwardCallsAbout(r) == CallsWhere(LAMBDA c : c.pass = "forward" /\ c.rec = r)

\* C19: for every Record with no derivable start the Forward Pass counts
\* one skip and nothing else, and issues no call on the calendar; an Event
\* linked to such a Record is neither modified nor deleted by the pass.
C19_DatelessSkipped ==
    (ForwardReturned /\ ForwardOK) =>
        /\ n2c.skipped = Cardinality(Dateless)
        /\ n2c.created + n2c.updated = Cardinality(Items \ Dateless)
        /\ \A it \in Dateless :
               /\ ForwardCallsAbout(it.id) = {}
               /\ \A e \in LinkedIn(start_calendar, it.id) :
                      calendar[e] = start_calendar[e]

\* a Record that lost its date, still linked to its Event, skipped
C19_Witness ==
    /\ ForwardReturned /\ ForwardOK
    /\ \E it \in Dateless : LinkedIn(start_calendar, it.id) # {}

\* C20 --------------------------------------------------------------------
\* C20: in a run, every call of the Forward Pass, the deletes of its sweep
\* included, comes before the first call of the Reverse Pass (once a call
\* of the Reverse Pass is made, only such calls follow), which is its
\* listing of the Events and follows the sweep; the Records are fetched
\* once, by the first call of the run.
C20_ForwardBeforeReverse ==
    /\ \A k \in DOMAIN calls :
           /\ (calls[k].pass = "reverse" /\ k < Len(calls))
                  => calls[k + 1].pass = "reverse"
           /\ (calls[k].pass = "reverse" /\ calls[k - 1].pass # "reverse")
                  => /\ calls[k].op = "events.list"
                     /\ calls[k - 1].pass = "forward"
                     /\ SweepLists # {}
           /\ calls[k].op = "databases.query"
                  => k = 1 /\ calls[k].pass = "main"
    /\ pc \in {"forward", "sweep", "reverse", "reverse_loop", "finish"}
           => calls[1].op = "databases.query"

\* a run whose sweep deleted an Event and whose Reverse Pass then created a
\* Record the snapshot does not hold
C20_Witness ==
    /\ ReverseReturned /\ RunOK
    /\ n2c.deleted > 0
    /\ c2n.created > 0
    /\ LivePages # notion_ids

\* C21 --------------------------------------------------------------------
\* the Records of which more than one Event carries the id
Duplicated == {r \in DOMAIN notion : Cardinality(LinkedIn(calendar, r)) > 1}

\* the calls of an execution hold a lookup of the Record r followed by the
\* insert of an Event for it
LookedUpAndInserted(made, r) ==
    \E k \in DOMAIN made :
        /\ k > 1
        /\ made[k].op = "events.insert" /\ made[k].rec = r /\ made[k].ok
        /\ made[k - 1].op = "events.list" /\ made[k - 1].rec = r

\* C21: two executions of main() that overlap can leave two Events carrying
\* the same Record id, and nothing stops the write that does it: the Events
\* of a Record are duplicated exactly where an update or an insert acted on
\* a lookup that the other execution had outdated meanwhile.  Whenever two
\* Events carry the same Record id, one of them was written on an outdated
\* lookup; and every write on an outdated lookup was carried out and left
\* its Event beside another one of the same Record.
C21_DuplicateByOutdatedLookup ==
    /\ \A r \in Duplicated : LinkedIn(calendar, r) \cap outdated # {}
    /\ \A e \in outdated :
           /\ e \in LiveEvents
           /\ calendar[e].link \in Duplicated

\* both executions looked up the same Record, both inserted an Event for
\* it, and the two Events carry its id
C21_Witness ==
    \E r \in DOMAIN notion :
        /\ Cardinality(LinkedIn(calendar, r)) = 2
        /\ LookedUpAndInserted(calls, r)
        /\ LookedUpAndInserted(other.calls, r)
        /\ n2c.created > 0
        /\ other.n2c.created > 0

====
